---- MODULE Spec2Model ----
(***************************************************************************)
(* A model of utils/udp.py (UDPConnectionManager: one caller thread, the   *)
(* receiver threads started by listen(), the bounded deque between them)   *)
(* and of envs/BaseEnv.py (BaseEnv.step on top of the manager).            *)
(*                                                                         *)
(* Spec     the manager driven directly through its public methods.        *)
(* SpecEnv  a constructed BaseEnv driven through step() and close().       *)
(***************************************************************************)
EXTENDS Integers, Sequences, FiniteSets, TLC

\* ---------------------------------------------------------------- bounds
\* Largest max_deque_len the constructor is given.
MaxCap == 2
\* Datagrams the socket delivers in one behaviour.
MaxMsgs == 3
\* Threads listen() may start in one behaviour.
MaxWorkers == 2
\* Socket objects bind() may create in one behaviour.
MaxSocks == 2
\* Components of the state vector that are modelled.
Dim == 1
\* Largest config.MAX_DEQUE_LEN an environment is built with.
MaxEnvCap == 3

\* ------------------------------------------------------------- constants
\* config.ACTION_FACTOR (config.py is not among the sources): the factor 1.0
\* of the specification's clamping example.
ACTION_FACTOR == 1

None == 0
Workers == 1..MaxWorkers
Socks == 1..MaxSocks
\* A float32 is a record: not-a-number, or v halves (v = 2 is the float 1.0).
NaN == [nan |-> TRUE, v |-> 0]
Num(k) == [nan |-> FALSE, v |-> k]

VARIABLES
    \* UDPConnectionManager fields
    sock,           \* self.sock: None or a socket object
    sockState,      \* each socket object: "none" (not created), "unbound", "bound", "closedU", "closedB"
    host,           \* self.host / self.port: "unset" or "set"
    running,        \* self.running
    listen_thread,  \* self.listen_thread: None or the thread object last started
    data_queue,     \* self.data_queue
    maxlen,         \* data_queue.maxlen
    lock,           \* self.lock: "free", "caller" or the worker holding it
    \* receiver threads
    wpc,            \* each thread's position: "idle", "loop", "recv", "timeout", "push", "done"
    wsock,          \* the socket object the thread's pending recvfrom reads
    wdata,          \* the datagram the thread received and has not pushed yet
    \* caller thread
    cpc,            \* position of the caller thread
    data_list,      \* get_data's local copy
    scope,          \* with-statement: "none", "in", "exiting", "left"
    exc,            \* an exception is travelling through __exit__
    exitClosed,     \* close() ran to its end inside the current __exit__
    closeRec,       \* what the close() in progress has done so far
    lastOp,         \* the caller's last completed operation and its outcome
    \* BaseEnv
    current_state,  \* self.current_state
    lastFrame,      \* the bytes of the last datagram handed to sendto
    nanFed,         \* components that were given a NaN action
    \* observation of the run
    nextId,         \* arrival number of the next datagram
    pushLog,        \* every datagram appended to data_queue, in append order
    drainMark,      \* Len(pushLog) at the last clear()
    drainLog,       \* every datagram get_data() returned, in return order
    evicted,        \* datagrams the deque dropped on overflow
    emptyIds,       \* datagrams that arrived with a payload of no bytes
    signalled       \* threads that were alive when a close() cleared self.running

vars == <<sock, sockState, host, running, listen_thread, data_queue, maxlen, lock,
          wpc, wsock, wdata, cpc, data_list, scope, exc, exitClosed, closeRec,
          lastOp, current_state, lastFrame, nanFed,
          nextId, pushLog, drainMark, drainLog, evicted, emptyIds, signalled>>

mgrVars == <<sock, sockState, host, running, listen_thread>>
bufVars == <<data_queue, lock, data_list>>
workerVars == <<wpc, wsock, wdata, signalled>>
withVars == <<scope, exc, exitClosed>>
envVars == <<current_state, lastFrame, nanFed>>
logVars == <<nextId, pushLog, drainMark, drainLog, evicted, emptyIds>>

\* ---------------------------------------------------------------- helpers
Range(s) == {s[i] : i \in 1..Len(s)}
Min(a, b) == IF a < b THEN a ELSE b
LastK(s, k) == SubSeq(s, Len(s) - k + 1, Len(s))
Count(s, x) == Cardinality({i \in 1..Len(s) : s[i] = x})

\* threading.Thread.is_alive()
IsAlive(w) == wpc[w] \in {"loop", "recv", "timeout", "push"}

\* deque.append on a deque(maxlen=m): a full deque drops its left end first.
DequeAppendDropNewest(q, x, m) == IF Len(q) >= m THEN q ELSE Append(q, x)
DequeAppend(q, x, m) ==
    IF m = 0 THEN q
    ELSE IF Len(q) >= m THEN Append(Tail(q), x)
    ELSE Append(q, x)

\* What deque.append drops.
DequeDropped(q, m) == IF m > 0 /\ Len(q) >= m THEN {Head(q)} ELSE {}

\* `with self.lock:` may enter.
LockAlwaysFree(l) == TRUE
LockFree(l) == l = "free"

\* A with-statement is open and the operation raised: control goes to __exit__.
Raises(op) == op.res # "ok" /\ scope = "in"

\* The caller's operation `op` returns or raises.
Finish(op) ==
    /\ lastOp' = op
    /\ IF Raises(op)
       THEN /\ cpc' = "exit"
            /\ scope' = "exiting"
            /\ exc' = TRUE
            /\ exitClosed' = FALSE
       ELSE /\ cpc' = "idle"
            /\ UNCHANGED withVars

NoCloseRec == [afterClose |-> FALSE, joined |-> FALSE, timedOut |-> FALSE,
               reported |-> "nothing"]

\* ---------------------------------------------------------------- Init
\* UDPConnectionManager.__init__
Init ==
    /\ sock = None
    /\ sockState = [s \in Socks |-> "none"]
    /\ host = "unset"
    /\ running = FALSE
    /\ listen_thread = None
    /\ data_queue = <<>>
    /\ maxlen \in 1..MaxCap
    /\ lock = "free"
    /\ wpc = [w \in Workers |-> "idle"]
    /\ wsock = [w \in Workers |-> None]
    /\ wdata = [w \in Workers |-> None]
    /\ cpc = "idle"
    /\ data_list = <<>>
    /\ scope = "none"
    /\ exc = FALSE
    /\ exitClosed = FALSE
    /\ closeRec = NoCloseRec
    /\ lastOp = [op |-> "__init__", res |-> "ok"]
    /\ current_state = [i \in 1..Dim |-> Num(0)]
    /\ lastFrame = <<>>
    /\ nanFed = {}
    /\ nextId = 1
    /\ pushLog = <<>>
    /\ drainMark = 0
    /\ drainLog = <<>>
    /\ evicted = {}
    /\ emptyIds = {}
    /\ signalled = {}

\* ------------------------------------------------------- caller: bind
\* bind(host, port); `ok` is whether the OS accepts the address.  The socket
\* object is stored in self.sock before the OS is asked, and stays there when
\* the OS refuses.
Bind(ok) ==
    /\ cpc = "idle"
    /\ \E s \in Socks :
        /\ sockState[s] = "none"
        /\ \A t \in Socks : t < s => sockState[t] # "none"
        /\ host' = "set"
        /\ sock' = s
        /\ sockState' = [sockState EXCEPT ![s] = IF ok THEN "bound" ELSE "unbound"]
    /\ Finish([op |-> "bind", res |-> IF ok THEN "ok" ELSE "OSError"])
    /\ UNCHANGED <<running, listen_thread, data_queue, maxlen, lock, data_list,
                   workerVars, closeRec, envVars, logVars>>

\* ----------------------------------------------------- caller: listen
\* `if not self.sock`
NoSock(s) == s = None

Listen ==
    /\ cpc = "idle"
    /\ IF NoSock(sock)
       THEN /\ Finish([op |-> "listen", res |-> "ValueError"])
            /\ UNCHANGED <<running, listen_thread, wpc>>
       ELSE \E w \in Workers :
            /\ wpc[w] = "idle"
            /\ \A u \in Workers : u < w => wpc[u] # "idle"
            /\ running' = TRUE
            /\ listen_thread' = w
            /\ wpc' = [wpc EXCEPT ![w] = "loop"]
            /\ Finish([op |-> "listen", res |-> "ok"])
    /\ UNCHANGED <<sock, sockState, host, data_queue, maxlen, lock, data_list,
                   wsock, wdata, signalled, closeRec, envVars, logVars>>

\* --------------------------------------------------- caller: get_data
\* `with self.lock:` entered, `data_list = list(self.data_queue)` taken.
DrainLock(from, to) ==
    /\ cpc = from
    /\ LockFree(lock)
    /\ lock' = "caller"
    /\ data_list' = data_queue
    /\ cpc' = to
    /\ UNCHANGED <<mgrVars, data_queue, maxlen, workerVars, withVars, closeRec,
                   lastOp, envVars, logVars>>

\* What `self.data_queue.clear()` leaves in the deque.
Cleared(q) == <<>>

\* `self.data_queue.clear()`, the lock released, data_list returned.
DrainClear ==
    /\ data_queue' = Cleared(data_queue)
    /\ lock' = "free"
    /\ drainLog' = drainLog \o data_list
    /\ drainMark' = Len(pushLog)
    /\ data_list' = <<>>
    /\ UNCHANGED <<nextId, pushLog, evicted, emptyIds>>

GetDataLock == DrainLock("idle", "get_clear")

GetDataClear ==
    /\ cpc = "get_clear"
    /\ DrainClear
    /\ Finish([op |-> "get_data", res |-> "ok"])
    /\ UNCHANGED <<mgrVars, maxlen, workerVars, closeRec, envVars>>

\* -------------------------------------------------- caller: send_data
\* The bytes the caller of send_data passes in this model.
Payload == <<1, 2>>

\* `if self.sock is None`
SendSockNeverNone(s) == FALSE
SendSockIsNone(s) == s = None

\* A send_data that calls sendto again after a failure.
SendOutcomeRetries(addrGiven, osOk) ==
    [op |-> "send_data", res |-> IF osOk THEN "ok" ELSE "OSError",
     attempts |-> IF osOk THEN 1 ELSE 2, tx |-> osOk]

\* send_data(data, address): how it ends, how often it called sendto and
\* whether a datagram left.  `osOk` is whether sendto succeeds.
SendOutcome(addrGiven, osOk) ==
    IF SendSockIsNone(sock)
    THEN [op |-> "send_data", res |-> "ValueError", attempts |-> 0, tx |-> FALSE]
    ELSE IF ~addrGiven /\ host = "unset"
    THEN [op |-> "send_data", res |-> "ValueError", attempts |-> 0, tx |-> FALSE]
    ELSE IF sock = None \/ sockState[sock] \notin {"bound", "unbound"}
    THEN [op |-> "send_data", res |-> "AttributeError", attempts |-> 0, tx |-> FALSE]
    ELSE IF osOk
    THEN [op |-> "send_data", res |-> "ok", attempts |-> 1, tx |-> TRUE]
    ELSE [op |-> "send_data", res |-> "OSError", attempts |-> 1, tx |-> FALSE]

SendData(addrGiven, osOk) ==
    /\ cpc = "idle"
    /\ LET out == SendOutcome(addrGiven, osOk) IN
        /\ lastFrame' = IF out.tx THEN Payload ELSE lastFrame
        /\ Finish(out)
    /\ UNCHANGED <<mgrVars, bufVars, maxlen, workerVars, closeRec,
                   current_state, nanFed, logVars>>

\* ------------------------------------------------------ caller: close
\* `if self.listen_thread and self.listen_thread.is_alive():`
NeverJoins(t) == FALSE
JoinsWorker(t) == t # None /\ IsAlive(t)

\* `self.running = False`, then the test of the thread: the caller goes on to
\* join or to the socket.
CloseBegin ==
    /\ running' = FALSE
    /\ signalled' = signalled \cup {w \in Workers : IsAlive(w)}
    /\ closeRec' = [afterClose |-> lastOp.op = "close", joined |-> FALSE,
                    timedOut |-> FALSE, reported |-> "nothing"]
    /\ cpc' = IF JoinsWorker(listen_thread) THEN "join" ELSE "close_sock"

CloseFlag ==
    /\ cpc = "idle"
    /\ CloseBegin
    /\ UNCHANGED <<sock, sockState, host, listen_thread, bufVars, maxlen,
                   wpc, wsock, wdata, withVars, lastOp, envVars, logVars>>

\* What close() logs after join(timeout=1) has returned; `alive` is whether
\* the thread is still alive then: `logger.info("Listening thread terminated.")`.
JoinReport(alive) == "terminated"

\* `self.listen_thread.join(timeout=1)` returns: the thread has ended, or the
\* second has passed with the thread still alive.
CloseJoin ==
    /\ cpc = "join"
    /\ \/ /\ ~IsAlive(listen_thread)
          /\ closeRec' = [closeRec EXCEPT !.joined = TRUE,
                                          !.reported = JoinReport(FALSE)]
       \/ /\ IsAlive(listen_thread)
          /\ closeRec' = [closeRec EXCEPT !.joined = TRUE, !.timedOut = TRUE,
                                          !.reported = JoinReport(TRUE)]
    /\ cpc' = "close_sock"
    /\ UNCHANGED <<mgrVars, bufVars, maxlen, workerVars, withVars,
                   lastOp, envVars, logVars>>

\* `if self.sock:` before `self.sock.close()`
CloseAlwaysCloses(s) == TRUE
CloseHasSock(s) == s # None

\* close()'s last statements and its return (into __exit__ when that called it).
CloseSock ==
    /\ cpc = "close_sock"
    /\ LET closes == CloseHasSock(sock)
           res == IF closes /\ sock = None THEN "AttributeError" ELSE "ok"
       IN
        /\ IF closes /\ sock # None
           THEN /\ sockState' = [sockState EXCEPT ![sock] =
                        IF @ = "bound" THEN "closedB" ELSE "closedU"]
                /\ sock' = None
           ELSE UNCHANGED <<sock, sockState>>
        /\ lastOp' = [op |-> "close", res |-> res,
                      again |-> closeRec.afterClose,
                      timedOut |-> closeRec.timedOut,
                      closedSock |-> closes /\ sock # None]
    /\ closeRec' = NoCloseRec
    /\ IF scope = "exiting"
       THEN /\ cpc' = "leave"
            /\ exitClosed' = TRUE
            /\ UNCHANGED <<scope, exc>>
       ELSE /\ cpc' = "idle"
            /\ UNCHANGED withVars
    /\ UNCHANGED <<host, running, listen_thread, bufVars, maxlen, workerVars,
                   envVars, logVars>>

\* --------------------------------------------- caller: with-statement
\* __enter__
WithEnter ==
    /\ cpc = "idle"
    /\ scope = "none"
    /\ scope' = "in"
    /\ UNCHANGED <<mgrVars, bufVars, maxlen, workerVars, cpc, exc, exitClosed,
                   closeRec, lastOp, envVars, logVars>>

\* The block ends without an exception.
WithBodyEnd ==
    /\ cpc = "idle"
    /\ scope = "in"
    /\ scope' = "exiting"
    /\ exc' = FALSE
    /\ exitClosed' = FALSE
    /\ cpc' = "exit"
    /\ UNCHANGED <<mgrVars, bufVars, maxlen, workerVars, closeRec, lastOp,
                   envVars, logVars>>

\* __exit__ calls self.close().
ExitSkipsClose == FALSE
ExitCallsClose == TRUE

\* What __exit__ returns: a true value would swallow the exception.
ExitReturn == FALSE

WithExit ==
    /\ cpc = "exit"
    /\ IF ExitCallsClose
       THEN /\ CloseBegin
       ELSE /\ cpc' = "leave"
            /\ UNCHANGED <<running, signalled, closeRec>>
    /\ UNCHANGED <<sock, sockState, host, listen_thread, bufVars, maxlen,
                   wpc, wsock, wdata, withVars, lastOp, envVars, logVars>>

\* __exit__ returns and the with-statement is left.
WithLeave ==
    /\ cpc = "leave"
    /\ cpc' = "idle"
    /\ scope' = "left"
    /\ exc' = FALSE
    /\ exitClosed' = FALSE
    /\ lastOp' = [op |-> "__exit__", res |-> "ok", closed |-> exitClosed,
                  raised |-> exc, propagated |-> exc /\ ~ExitReturn]
    /\ UNCHANGED <<mgrVars, bufVars, maxlen, workerVars, closeRec, envVars, logVars>>

\* ------------------------------------------------- receiver: _listen_thread
\* `while self.running:` and the start of `self.sock.recvfrom(...)`.
WorkerLoop(w) ==
    /\ wpc[w] = "loop"
    /\ IF running
       THEN /\ wpc' = [wpc EXCEPT ![w] = "recv"]
            /\ wsock' = [wsock EXCEPT ![w] = sock]
       ELSE /\ wpc' = [wpc EXCEPT ![w] = "done"]
            /\ UNCHANGED wsock
    /\ UNCHANGED <<mgrVars, bufVars, maxlen, wdata, signalled, cpc, withVars,
                   closeRec, lastOp, envVars, logVars>>

\* `if data:`
KeepsEveryPayload(empty) == TRUE
KeepsPayload(empty) == ~empty

\* recvfrom returns a datagram; `empty` is whether its payload has no bytes.
\* (A socket whose bind failed can still be given a port by a later sendto.)
WorkerRecvData(w, empty) ==
    /\ wpc[w] = "recv"
    /\ wsock[w] # None
    /\ sockState[wsock[w]] \in {"bound", "unbound"}
    /\ nextId <= MaxMsgs
    /\ nextId' = nextId + 1
    /\ emptyIds' = IF empty THEN emptyIds \cup {nextId} ELSE emptyIds
    /\ IF KeepsPayload(empty)
       THEN /\ wdata' = [wdata EXCEPT ![w] = nextId]
            /\ wpc' = [wpc EXCEPT ![w] = "push"]
       ELSE /\ wpc' = [wpc EXCEPT ![w] = "loop"]
            /\ UNCHANGED wdata
    /\ wsock' = [wsock EXCEPT ![w] = None]
    /\ UNCHANGED signalled
    /\ UNCHANGED <<mgrVars, bufVars, maxlen, cpc, withVars, closeRec, lastOp,
                   envVars, pushLog, drainMark, drainLog, evicted>>

\* `with self.lock: self.data_queue.append((data, addr))`
WorkerPush(w) ==
    /\ wpc[w] = "push"
    /\ LockFree(lock)
    /\ data_queue' = DequeAppend(data_queue, wdata[w], maxlen)
    /\ evicted' = evicted \cup DequeDropped(data_queue, maxlen)
    /\ pushLog' = Append(pushLog, wdata[w])
    /\ wdata' = [wdata EXCEPT ![w] = None]
    /\ wpc' = [wpc EXCEPT ![w] = "loop"]
    /\ UNCHANGED <<mgrVars, lock, data_list, maxlen, wsock, signalled, cpc, withVars,
                   closeRec, lastOp, envVars, nextId, drainMark, drainLog,
                   emptyIds>>

\* recvfrom raises socket.timeout and `except socket.timeout:` is entered.
\* Only a socket that bind() configured has a timeout; a receive that was
\* pending when the socket was closed may still end by its timeout.
WorkerRecvTimeout(w) ==
    /\ wpc[w] = "recv"
    /\ wsock[w] # None
    /\ sockState[wsock[w]] \in {"bound", "closedB"}
    /\ wpc' = [wpc EXCEPT ![w] = "timeout"]
    /\ wsock' = [wsock EXCEPT ![w] = None]
    /\ UNCHANGED signalled
    /\ UNCHANGED <<mgrVars, bufVars, maxlen, wdata, cpc, withVars, closeRec,
                   lastOp, envVars, logVars>>

\* Where the handler of socket.timeout sends the thread: `continue`.
OnTimeoutBreak == "done"
OnTimeout == "loop"

\* `continue` in the handler of socket.timeout.
WorkerContinue(w) ==
    /\ wpc[w] = "timeout"
    /\ wpc' = [wpc EXCEPT ![w] = OnTimeout]
    /\ UNCHANGED <<mgrVars, bufVars, maxlen, wsock, wdata, signalled, cpc,
                   withVars, closeRec, lastOp, envVars, logVars>>

\* `except Exception: ... break`: self.sock was None, the socket was closed, or
\* the OS failed the receive.
WorkerRecvError(w) ==
    /\ wpc[w] = "recv"
    /\ wpc' = [wpc EXCEPT ![w] = "done"]
    /\ wsock' = [wsock EXCEPT ![w] = None]
    /\ UNCHANGED signalled
    /\ UNCHANGED <<mgrVars, bufVars, maxlen, wdata, cpc, withVars, closeRec,
                   lastOp, envVars, logVars>>

Worker(w) ==
    \/ WorkerLoop(w)
    \/ \E empty \in BOOLEAN : WorkerRecvData(w, empty)
    \/ WorkerPush(w)
    \/ WorkerRecvTimeout(w)
    \/ WorkerContinue(w)
    \/ WorkerRecvError(w)

\* ---------------------------------------------------------------- Spec
Caller ==
    \/ Bind(TRUE)
    \/ Bind(FALSE)
    \/ Listen
    \/ GetDataLock
    \/ GetDataClear
    \/ \E addrGiven \in BOOLEAN, osOk \in BOOLEAN : SendData(addrGiven, osOk)
    \/ CloseFlag
    \/ CloseJoin
    \/ CloseSock

\* The manager used directly.
Next == Caller \/ \E w \in Workers : Worker(w)

Spec == Init /\ [][Next]_vars

\* ------------------------------------------------------------ SpecWith
\* The manager used as a scoped resource: `with manager:` is entered, every
\* operation is called inside the block, and the block is left once.
NextWith ==
    \/ WithEnter
    \/ (scope \in {"in", "exiting"} /\ Caller)
    \/ WithBodyEnd
    \/ WithExit
    \/ WithLeave
    \/ \E w \in Workers : Worker(w)

SpecWith == Init /\ [][NextWith]_vars

\* ------------------------------------------------------------- BaseEnv
\* numpy float32 arithmetic on the modelled values: a NaN operand gives NaN.
FAdd(x, y) == IF x.nan \/ y.nan THEN NaN ELSE Num(x.v + y.v)
FMul(x, k) == IF x.nan THEN NaN ELSE Num(x.v * k)

\* np.clip(x, -1, 1): minimum(maximum(x, -1), 1); NaN passes through.
ClipUpperOnly(x) == IF x.nan THEN NaN ELSE Num(IF x.v > 2 THEN 2 ELSE x.v)
Clip(x) ==
    IF x.nan THEN NaN
    ELSE Num(IF x.v < -2 THEN -2 ELSE IF x.v > 2 THEN 2 ELSE x.v)

Abs(k) == IF k < 0 THEN -k ELSE k
\* The e with 2^e <= h < 2^(e+1), for h >= 1.
RECURSIVE Log2Floor(_)
Log2Floor(h) == IF h < 2 THEN 0 ELSE 1 + Log2Floor(h \div 2)

\* ndarray.tobytes() of one float32: IEEE 754 binary32, little-endian.
F32Bytes(x) ==
    IF x.nan THEN <<0, 0, 192, 127>>
    ELSE IF x.v = 0 THEN <<0, 0, 0, 0>>
    ELSE LET h == Abs(x.v)
             e == Log2Floor(h)
             biased == e + 126
             mant == (h - 2^e) * 2^(23 - e)
             sign == IF x.v < 0 THEN 1 ELSE 0
         IN <<mant % 256,
              (mant \div 256) % 256,
              (biased % 2) * 128 + mant \div 65536,
              sign * 128 + biased \div 2>>

\* The float32 that four little-endian bytes hold.
F32Value(b) ==
    LET sign == b[4] \div 128
        biased == (b[4] % 128) * 2 + b[3] \div 128
        mant == (b[3] % 128) * 65536 + b[2] * 256 + b[1]
    IN IF biased = 255 /\ mant # 0 THEN NaN
       ELSE IF biased = 0 /\ mant = 0 THEN Num(0)
       ELSE LET e == biased - 126
                h == 2^e + mant \div 2^(23 - e)
            IN Num(IF sign = 1 THEN -h ELSE h)

\* ndarray.tobytes() of the state vector.
RECURSIVE ToBytes(_)
ToBytes(st) ==
    IF Len(st) = 0 THEN <<>>
    ELSE F32Bytes(Head(st)) \o ToBytes(Tail(st))

\* The vector a frame of 4 * Dim bytes holds.
FromBytes(frame) ==
    [i \in 1..(Len(frame) \div 4) |-> F32Value(SubSeq(frame, 4 * i - 3, 4 * i))]

\* The action components a caller passes to step().
ActionVals == {Num(-20), Num(-1), Num(1), Num(20), NaN}
Actions == [1..Dim -> ActionVals]

\* `self.current_state += action * ACTION_FACTOR`
Added(st, a) == [i \in 1..Dim |-> FAdd(st[i], FMul(a[i], ACTION_FACTOR))]
\* `np.clip(self.current_state, -1, 1, dtype=np.float32)`
Clipped(st) == [i \in 1..Dim |-> Clip(st[i])]

\* The array whose bytes step() sends: the state after the clip.
FrameOf(sum, st) == st

\* `obs, rew = self.udp.get_data()`: the list unpacks only into two names.
UnpacksTwoOrMore(l) == Len(l) >= 2
Unpacks(l) == Len(l) = 2
\* The observation step() returns from the drained list.
ObsOf(l) == l[1]
RewOf(l) == l[2]

\* step(action) up to the end of send_data: the state is updated and clipped,
\* then the frame is handed to send_data without an address.
StepSend(a, osOk) ==
    /\ cpc = "idle"
    /\ LET sum == Added(current_state, a)
           st == Clipped(sum)
           out == SendOutcome(FALSE, osOk)
       IN
        /\ current_state' = st
        /\ nanFed' = nanFed \cup {i \in 1..Dim : a[i].nan}
        /\ IF out.res = "ok"
           THEN /\ lastFrame' = ToBytes(FrameOf(sum, st))
                /\ cpc' = "step_sleep"
                /\ UNCHANGED <<lastOp, withVars>>
           ELSE /\ UNCHANGED lastFrame
                /\ Finish([op |-> "step", res |-> out.res, at |-> "send",
                           attempts |-> out.attempts,
                           drained |-> <<>>, obs |-> None, rew |-> None])
    /\ UNCHANGED <<mgrVars, bufVars, maxlen, workerVars, closeRec, logVars>>

\* `time.sleep(0.01)` is over; get_data() takes the lock and the copy.
StepDrainLock == DrainLock("step_sleep", "step_clear")

\* get_data() returns; the list is unpacked and step() returns or raises.
StepDrainClear ==
    /\ cpc = "step_clear"
    /\ DrainClear
    /\ IF Unpacks(data_list)
       THEN Finish([op |-> "step", res |-> "ok", at |-> "return",
                    drained |-> data_list,
                    obs |-> ObsOf(data_list), rew |-> RewOf(data_list)])
       ELSE Finish([op |-> "step", res |-> "ValueError", at |-> "unpack",
                    drained |-> data_list, obs |-> None, rew |-> None])
    /\ UNCHANGED <<mgrVars, maxlen, workerVars, closeRec, envVars>>

\* BaseEnv.__init__: the manager is built with config.MAX_DEQUE_LEN, bound and
\* listening (an __init__ whose bind() raised builds no environment).
InitEnv ==
    /\ sock = 1
    /\ sockState = [s \in Socks |-> IF s = 1 THEN "bound" ELSE "none"]
    /\ host = "set"
    /\ running = TRUE
    /\ listen_thread = 1
    /\ data_queue = <<>>
    /\ maxlen \in 1..MaxEnvCap
    /\ lock = "free"
    /\ wpc = [w \in Workers |-> IF w = 1 THEN "loop" ELSE "idle"]
    /\ wsock = [w \in Workers |-> None]
    /\ wdata = [w \in Workers |-> None]
    /\ cpc = "idle"
    /\ data_list = <<>>
    /\ scope = "none"
    /\ exc = FALSE
    /\ exitClosed = FALSE
    /\ closeRec = NoCloseRec
    /\ lastOp = [op |-> "__init__", res |-> "ok"]
    /\ current_state = [i \in 1..Dim |-> Num(0)]
    /\ lastFrame = <<>>
    /\ nanFed = {}
    /\ nextId = 1
    /\ pushLog = <<>>
    /\ drainMark = 0
    /\ drainLog = <<>>
    /\ evicted = {}
    /\ emptyIds = {}
    /\ signalled = {}

\* BaseEnv.close() is self.udp.close().
NextEnv ==
    \/ \E a \in Actions, osOk \in BOOLEAN : StepSend(a, osOk)
    \/ StepDrainLock
    \/ StepDrainClear
    \/ CloseFlag
    \/ CloseJoin
    \/ CloseSock
    \/ \E w \in Workers : Worker(w)

SpecEnv == InitEnv /\ [][NextEnv]_vars

\* ================================================================ claims
\* The datagrams appended since the last clear(), in append order.
SinceDrain == SubSeq(pushLog, drainMark + 1, Len(pushLog))
Increasing(l) == \A i, j \in 1..Len(l) : i < j => l[i] < l[j]
In(d, b) == IF b THEN 1 ELSE 0

\* C1: in every reachable state the buffer holds at most max_deque_len
\* datagrams, and they are exactly the min(N, C) most recently pushed of the N
\* datagrams pushed since the last drain, in push order: a push into a full
\* buffer drops the single oldest entry and is never refused.
C1_Capacity ==
    /\ Len(data_queue) <= maxlen
    /\ data_queue = LastK(SinceDrain, Min(Len(SinceDrain), maxlen))
    /\ evicted \cap Range(data_queue) = {}

\* C1 witness: capacity 2, D1, D2, D3 pushed with no drain: the buffer is [D2, D3].
C1_Witness ==
    /\ maxlen = 2
    /\ pushLog = <<1, 2, 3>>
    /\ drainMark = 0
    /\ data_queue = <<2, 3>>
    /\ evicted = {1}

\* C2: no datagram is returned by two get_data() calls or twice by one, and
\* every pushed datagram is in exactly one place: returned by a get_data(),
\* still in the buffer, or dropped by overflow; nothing that was not pushed is
\* in any of them.
C2_DrainAtomicity ==
    /\ \A d \in Range(pushLog) :
        /\ Count(pushLog, d) = 1
        /\ Count(drainLog, d) <= 1
        /\ Count(data_queue, d) <= 1
        /\ In(d, Count(drainLog, d) = 1) + In(d, Count(data_queue, d) = 1)
               + In(d, d \in evicted) = 1
    /\ Range(drainLog) \cup Range(data_queue) \cup evicted \subseteq Range(pushLog)

\* C2 witness: a worker holds a received datagram and waits for the lock while
\* a get_data() that already returned data once is between its copy and its
\* clear of a non-empty buffer.
C2_Witness ==
    /\ lock = "caller"
    /\ cpc = "get_clear"
    /\ data_list # <<>>
    /\ drainLog # <<>>
    /\ \E w \in Workers : wpc[w] = "push"

\* C3: datagrams enter the buffer in the order the socket delivered them, and
\* get_data() returns them, within one call and across calls, in that order.
C3_Ordering ==
    /\ Increasing(pushLog)
    /\ Increasing(drainLog \o data_queue)

\* C4 as stated: close() never raises, and a close() called right after a
\* close() closes no socket and performs no join.
C4_Original ==
    /\ lastOp.op = "close" => lastOp.res = "ok"
    /\ (lastOp.op = "close" /\ lastOp.again) => ~lastOp.closedSock
    /\ ~(cpc = "join" /\ closeRec.afterClose)

\* C4 amended: close() never raises in any lifecycle state, and a close()
\* called right after a close() closes no socket; it joins the worker again
\* only when the first call's join(timeout=1) ended with the worker alive.
C4_CloseTwice ==
    /\ lastOp.op = "close" => lastOp.res = "ok"
    /\ (lastOp.op = "close" /\ lastOp.again) => ~lastOp.closedSock
    /\ (cpc = "join" /\ closeRec.afterClose) =>
           (lastOp.op = "close" /\ lastOp.timedOut)
    /\ \A s \in Socks : sockState[s] \in {"closedB", "closedU"} => sock # s

\* C4 witness: a close() right after a close() that closed a bound socket and
\* joined a listening worker has returned.
C4_Witness ==
    /\ cpc = "idle"
    /\ lastOp.op = "close"
    /\ lastOp.again
    /\ ~lastOp.closedSock
    /\ sock = None
    /\ \E s \in Socks : sockState[s] = "closedB"
    /\ listen_thread # None

\* self.sock holds a socket that bind() bound.
SockBound == sock # None /\ sockState[sock] = "bound"

\* C5: listen() raises whenever no bound socket is there (no bind(), a failed
\* bind(), a closed manager) and then starts no worker and leaves running
\* false; it sets running and starts the receiver only on a bound socket.
C5_ListenNeedsBound ==
    /\ (lastOp.op = "listen" /\ lastOp.res = "ok") => SockBound
    /\ (lastOp.op = "listen" /\ lastOp.res # "ok") => (~SockBound /\ ~running)

\* A step in which a send_data() call returns or raises.
SendReturns ==
    /\ cpc = "idle"
    /\ lastOp'.op = "send_data"
    /\ lastOp' # lastOp \/ lastFrame' # lastFrame

\* C6: send_data() without a socket (before bind(), after close()) raises the
\* precondition error, calls sendto not once and transmits nothing; with a
\* socket it is accepted (it reaches sendto) whatever the receiver is doing:
\* never started, running, or ended by an error; and it changes neither the
\* buffer nor running nor any worker.
C6_SendData ==
    [][SendReturns =>
        /\ sock = None =>
              /\ lastOp'.res = "ValueError"
              /\ lastOp'.attempts = 0
              /\ ~lastOp'.tx
              /\ lastFrame' = lastFrame
        /\ sock # None =>
              /\ lastOp'.res \in {"ok", "OSError"}
              /\ lastOp'.attempts = 1
              /\ lastOp'.tx = (lastOp'.res = "ok")
        /\ UNCHANGED <<data_queue, data_list, lock, running, listen_thread,
                       wpc, wsock, wdata, sock, sockState>>]_vars

\* C6 witness: send_data() was accepted on a bound socket after the receiver
\* had ended by an error (running is still set).
C6_Witness ==
    /\ lastOp.op = "send_data"
    /\ lastOp.res = "ok"
    /\ SockBound
    /\ running
    /\ listen_thread # None
    /\ wpc[listen_thread] = "done"

\* C7: when the with-statement is left, on the normal path and on the path of
\* an exception raised in the block, close() has run to its end (the socket
\* released, running cleared), and a raised exception goes on to the caller.
C7_ScopedClose ==
    /\ scope = "left" => lastOp.op = "__exit__"
    /\ lastOp.op = "__exit__" =>
        /\ lastOp.closed
        /\ sock = None
        /\ ~running
        /\ lastOp.raised => lastOp.propagated
        /\ ~lastOp.raised => ~lastOp.propagated

\* C7 witness: the block was left by an exception after the manager had been
\* bound and listening; the socket is closed and the exception propagated.
C7_Witness ==
    /\ scope = "left"
    /\ lastOp.op = "__exit__"
    /\ lastOp.raised
    /\ lastOp.propagated
    /\ \E s \in Socks : sockState[s] = "closedB"
    /\ listen_thread # None

\* C8: a worker that was alive when close() cleared running starts no receive
\* after the one that was pending: from the head of its loop it only leaves.
C8_BoundedShutdown ==
    [][\A w \in Workers :
        (w \in signalled /\ wpc[w] = "loop") => wpc'[w] \in {"loop", "done"}]_vars

\* Every component is a number in [-1, 1].
InUnitBox(st) == \A i \in 1..Dim : ~st[i].nan /\ st[i].v >= -2 /\ st[i].v <= 2

\* The frame of the step in progress, or of the last completed step, was sent.
StepSent ==
    \/ cpc \in {"step_sleep", "step_clear"}
    \/ lastOp.op = "step" /\ lastOp.at # "send"

\* C9 as stated: after any steps with any actions every component of
\* current_state lies in [-1, 1].
C9_Original == InUnitBox(current_state)

\* C9 amended: a component that was never given a NaN action lies in [-1, 1]
\* after every step, and a component is NaN only after a NaN action; the frame
\* a step sends holds exactly the state after the clip; from the zero state,
\* action 10 with factor 1 gives state 1 in every component.
C9_StepClamping ==
    /\ \A i \in 1..Dim :
        /\ current_state[i].nan => i \in nanFed
        /\ ~current_state[i].nan =>
               (current_state[i].v >= -2 /\ current_state[i].v <= 2)
    /\ StepSent =>
        /\ Len(lastFrame) = 4 * Dim
        /\ FromBytes(lastFrame) = current_state
    /\ Clipped(Added([i \in 1..Dim |-> Num(0)], [i \in 1..Dim |-> Num(20)]))
           = [i \in 1..Dim |-> Num(2)]

\* C9 witness: a step clamped every component to 1 and its frame, the bytes
\* of 1.0 per component, is on the wire.
C9_Witness ==
    /\ cpc = "step_sleep"
    /\ current_state = [i \in 1..Dim |-> Num(2)]
    /\ lastFrame = ToBytes([i \in 1..Dim |-> Num(2)])
    /\ SubSeq(lastFrame, 1, 4) = <<0, 0, 128, 63>>

\* C10: whenever the list step() drained is not empty, step() returns and
\* its observation is the most recently pushed datagram of that list.
C10_FreshestObs ==
    (lastOp.op = "step" /\ lastOp.at # "send" /\ lastOp.drained # <<>>) =>
        /\ lastOp.res = "ok"
        /\ lastOp.obs = lastOp.drained[Len(lastOp.drained)]

\* The receiver threads that are alive.
Live == {w \in Workers : IsAlive(w)}

\* C11: in every reachable state at most one receiver thread of the manager
\* is alive, whatever sequence of bind(), listen() and close() was called.
C11_OneWorker == Cardinality(Live) <= 1

\* The thread listen() started last has left its loop.
WorkerStopped == listen_thread # None /\ wpc[listen_thread] = "done"

\* C12: whenever the manager's worker has terminated, by close() or by a
\* receive error, the running flag is false.
C12_StoppedNotRunning == WorkerStopped => ~running

\* C13: a receive that times out changes neither the buffer nor running nor
\* the socket; from the timeout handler the worker goes back to the head of
\* its loop, and from there, while running is true, it starts the next
\* receive: timeouts alone never end a worker.
C13_TimeoutContinues ==
    [][\A w \in Workers :
        /\ (wpc[w] = "recv" /\ wpc'[w] = "timeout") =>
               UNCHANGED <<data_queue, data_list, lock, running, sock, sockState,
                           listen_thread, pushLog, evicted>>
        /\ (wpc[w] = "timeout" /\ wpc'[w] # "timeout") =>
               /\ wpc'[w] = "loop"
               /\ UNCHANGED <<data_queue, data_list, lock, running, sock,
                              sockState, listen_thread, pushLog, evicted>>
        /\ (wpc[w] = "loop" /\ running /\ wpc'[w] # "loop") =>
               wpc'[w] = "recv"]_vars

\* C13 witness: a worker is in the timeout handler while running is true and
\* the buffer holds a datagram it pushed before.
C13_Witness ==
    /\ running
    /\ data_queue # <<>>
    /\ listen_thread # None
    /\ wpc[listen_thread] = "timeout"

\* The manager's worker has ended by a receive error: it has left its loop
\* although running is still set.
WorkerFailed == WorkerStopped /\ running

\* C14: a receive error ends only the worker: the step of the error changes
\* nothing of the caller (no exception, no operation result) and starts no
\* thread, the ended thread never runs again, and while the manager's worker
\* stays failed nothing more enters the buffer, so that every later get_data()
\* returns without error what was buffered at the failure, then empty lists.
C14_ErrorConfined ==
    [][/\ \A w \in Workers :
            /\ (wpc[w] = "recv" /\ wpc'[w] = "done") =>
                   UNCHANGED <<cpc, lastOp, exc, scope, data_queue, data_list,
                               running, listen_thread, sock>>
            /\ wpc[w] = "done" => wpc'[w] = "done"
       /\ (WorkerFailed /\ WorkerFailed') =>
            /\ pushLog' = pushLog
            /\ lastOp'.op = "get_data" => lastOp'.res = "ok"]_vars

\* The caller is inside close().
InClose == cpc \in {"join", "close_sock"}

\* C15: close() first clears running, then waits for the worker if it is
\* alive, and only then closes the socket and clears self.sock: a socket is
\* closed, and self.sock cleared, only by a close() that has cleared running
\* and has its wait behind it.
C15_CloseOrder ==
    [][/\ (~InClose /\ InClose') =>
            /\ ~running'
            /\ UNCHANGED <<sock, sockState>>
            /\ cpc' = "join" <=> (listen_thread # None /\ IsAlive(listen_thread))
       /\ (cpc = "join" /\ cpc' # "join") =>
            /\ cpc' = "close_sock"
            /\ closeRec'.joined
            /\ ~running'
            /\ UNCHANGED <<sock, sockState>>
       /\ (sock' = None /\ sock # None) =>
            /\ cpc = "close_sock"
            /\ ~running
            /\ sockState'[sock] \in {"closedB", "closedU"}
       /\ \A s \in Socks :
            (sockState'[s] \in {"closedB", "closedU"} /\ sockState'[s] # sockState[s]) =>
                /\ cpc = "close_sock"
                /\ ~running
                /\ sock = s]_vars

\* C15 witness: a close() has cleared running and has joined the worker, and
\* is about to close the bound socket.
C15_Witness ==
    /\ cpc = "close_sock"
    /\ closeRec.joined
    /\ ~running
    /\ SockBound

\* C16: when join(timeout=1) returned with the worker still alive, close()
\* reports a leak; it reports the worker as terminated only when the worker
\* has ended.
C16_LeakReported ==
    /\ closeRec.timedOut => closeRec.reported = "leak"
    /\ closeRec.reported = "terminated" =>
           (~closeRec.timedOut /\ ~IsAlive(listen_thread))

\* A receiver thread takes a step of its loop (a start by listen() is not one).
WorkerStep == \E w \in Workers : wpc[w] # "idle" /\ wpc'[w] # wpc[w]
\* A worker is at `while self.running:`, about to read self.running and, for
\* recvfrom, self.sock.
ReadsFlag == \E w \in Workers : wpc[w] = "loop"

\* C17 as stated: apart from the buffer no field is written by one thread
\* while the other is about to read it: running and sock never change while a
\* worker stands at the reads of its loop head.
C17_Original ==
    [][(running' # running \/ sock' # sock) => ~ReadsFlag]_vars

\* C17 amended: the buffer is the only state both threads write, and it
\* changes only inside the lock-guarded sections (the worker's append with the
\* lock free for it, the caller's clear with the lock held by the caller);
\* running, sock and listen_thread are written by the caller's thread only,
\* and the worker's reads of running and sock take no lock.
C17_SharedState ==
    [][/\ data_queue' # data_queue =>
            \/ /\ lock = "caller"
               /\ cpc \in {"get_clear", "step_clear"}
               /\ ~WorkerStep
            \/ /\ lock = "free"
               /\ \E w \in Workers : wpc[w] = "push" /\ wpc'[w] = "loop"
       /\ (lock = "caller" /\ lock' = "caller") => data_queue' = data_queue
       /\ WorkerStep =>
            UNCHANGED <<running, sock, sockState, host, listen_thread, lock,
                        cpc, data_list>>
       /\ (running' # running \/ sock' # sock \/ listen_thread' # listen_thread) =>
            /\ ~WorkerStep
            /\ cpc \in {"idle", "close_sock", "exit"}]_vars

\* C17 witness: after pushes and a drain, close() has cleared running and
\* waits in join while its worker stands at the unguarded read of running.
C17_Witness ==
    /\ cpc = "join"
    /\ ~running
    /\ wpc[listen_thread] = "loop"
    /\ data_queue # <<>>
    /\ drainLog # <<>>

\* A step in which step() ends inside its send_data() call.
StepSendFails ==
    /\ cpc = "idle"
    /\ cpc' = "idle"
    /\ wpc' = wpc
    /\ lastOp'.op = "step"
    /\ lastOp'.at = "send"

\* C18: when the send inside step() fails, step() raises that error, with
\* sendto called exactly once when it was sendto that failed (and not at all
\* when no socket is there), and it performs no drain: the buffer, the lock
\* and everything get_data() returned so far are as before, so the buffered
\* datagrams are there for the next step().  A step() goes on to its drain
\* only with the frame handed to sendto.
C18_SendFailure ==
    [][/\ StepSendFails =>
            /\ lastOp'.res \in {"OSError", "ValueError"}
            /\ lastOp'.attempts = IF lastOp'.res = "OSError" THEN 1 ELSE 0
            /\ lastOp'.res = "ValueError" <=> sock = None
            /\ lastOp'.drained = <<>>
            /\ UNCHANGED <<data_queue, data_list, lock, drainLog, drainMark,
                           pushLog, evicted, lastFrame, running, sock, sockState>>
       /\ (cpc = "idle" /\ cpc' = "step_sleep") =>
            /\ sock # None
            /\ lastFrame' = ToBytes(current_state')
            /\ UNCHANGED <<data_queue, data_list, lock, drainLog, lastOp>>]_vars

\* C18 witness: a step() whose sendto failed has raised after one attempt,
\* and the datagrams that were buffered are still in the buffer.
C18_Witness ==
    /\ cpc = "idle"
    /\ lastOp.op = "step"
    /\ lastOp.at = "send"
    /\ lastOp.res = "OSError"
    /\ lastOp.attempts = 1
    /\ Len(data_queue) = 2
    /\ drainLog = <<>>

\* The last completed operation is a step() that got as far as its drain.
StepDrained == lastOp.op = "step" /\ lastOp.at # "send"

\* C19: a step() that reached its drain returned normally exactly when the
\* drained list held two datagrams, and raised from the unpacking for every
\* other length; at that point the state is updated and its frame sent, and
\* the drained datagrams are out of the buffer for good.
C19_StepNeedsTwo ==
    StepDrained =>
        /\ lastOp.res = "ok" <=> Len(lastOp.drained) = 2
        /\ lastOp.res # "ok" =>
            /\ lastOp.res = "ValueError"
            /\ lastOp.at = "unpack"
            /\ lastOp.obs = None
        /\ Len(lastFrame) = 4 * Dim
        /\ FromBytes(lastFrame) = current_state
        /\ Len(drainLog) >= Len(lastOp.drained)
        /\ LastK(drainLog, Len(lastOp.drained)) = lastOp.drained
        /\ Range(lastOp.drained) \cap Range(data_queue) = {}
        /\ \A w \in Workers : wdata[w] \notin Range(lastOp.drained)

\* C19 witness: with capacity 3 a step() drained three datagrams and raised;
\* the buffer is empty and the state has moved.
C19_Witness ==
    /\ cpc = "idle"
    /\ StepDrained
    /\ lastOp.res = "ValueError"
    /\ Len(lastOp.drained) = 3
    /\ data_queue = <<>>
    /\ current_state # [i \in 1..Dim |-> Num(0)]

\* Every datagram pushed or waiting to be pushed.
Kept == Range(pushLog) \cup {wdata[w] : w \in Workers}

\* C20: a received datagram is inserted if and only if its payload is not
\* empty: an empty one is never pushed and never waits to be pushed, and the
\* step that receives it changes neither the buffer nor what was evicted and
\* leaves the worker in its loop; a non-empty one goes on to the push.
C20_EmptyDropped ==
    [][/\ emptyIds' \cap (Range(pushLog') \cup Range(data_queue')
                          \cup {wdata'[w] : w \in Workers}) = {}
       /\ nextId' # nextId =>
            \E w \in Workers :
                /\ wpc[w] = "recv"
                /\ \A u \in Workers \ {w} : wpc'[u] = wpc[u]
                /\ UNCHANGED <<data_queue, evicted, pushLog, running, lock>>
                /\ IF nextId \in emptyIds'
                   THEN /\ wpc'[w] = "loop"
                        /\ wdata' = wdata
                   ELSE /\ wpc'[w] = "push"
                        /\ wdata'[w] = nextId
       /\ \A w \in Workers :
            (wpc[w] = "push" /\ wpc'[w] # "push") =>
                /\ wpc'[w] = "loop"
                /\ pushLog' = Append(pushLog, wdata[w])
                /\ data_queue' # <<>>
                /\ data_queue'[Len(data_queue')] = wdata[w]]_vars

\* C20 witness: the first datagram was empty and was dropped, the second was
\* pushed by the same worker, which is alive.
C20_Witness ==
    /\ emptyIds = {1}
    /\ pushLog = <<2>>
    /\ data_queue = <<2>>
    /\ listen_thread # None
    /\ IsAlive(listen_thread)
    /\ \A w \in Workers : w # listen_thread => wpc[w] = "idle"

====
